---- MODULE Spec2Model ----
(***************************************************************************)
(* Model of ediapp/botbb: src/binance_monitor.py (BinanceMultiMonitor) and *)
(* src/config.py.                                                          *)
(*                                                                         *)
(* The program is a single asyncio event loop.  Code between two awaits    *)
(* runs atomically, so every action below is one such stretch of a task:   *)
(* from the point where the task is resumed to the next await on network   *)
(* I/O or on a sleep.  A stretch that changes no state (between the answer *)
(* of a request and the reading of its body, or after the last statement   *)
(* of a function and the closing of its session) is part of the wait next  *)
(* to it.  The tasks are run() itself, one websocket_handler per (symbol,  *)
(* market), print_stats and update_subscribers_periodically.               *)
(* The public method add_subscriber is called by no task; a call of it     *)
(* from outside is a step of its own between two steps of the tasks.       *)
(*                                                                         *)
(* Modelling conventions:                                                  *)
(*  - prices and quantities are whole numbers (float() of a numeric        *)
(*    string); NaN and infinities are not modelled;                        *)
(*  - recipient ids are the small integers 1..MaxUser.  CPython stores a   *)
(*    small int of a set in the table slot equal to its value, so a set    *)
(*    iterator visits the ids in ascending order and list(set) is          *)
(*    ascending;                                                           *)
(*  - time.time() is the integer clock `now`, advanced by Tick.            *)
(***************************************************************************)
EXTENDS Integers, Sequences, FiniteSets, TLC

(* ------------------------------ bounds --------------------------------- *)
\* recipient ids are 1..MaxUser
MaxUser == 2
\* under Spec handle_trade is called at most MaxTrades times with a decodable
\* message
MaxTrades == 2
\* under LimiterSpec the clock runs from 0 to MaxTime in steps of TickSeconds
MaxTime == 60
TickSeconds == 60
\* NOTIFICATION_SETTINGS['max_notifications_per_minute'], scaled down
MaxPerMinute == 1
\* getUpdates returns at most MaxBatch updates
MaxBatch == 2
\* the cap on decodable messages under LimiterSpec
LimiterTrades == 4

(* ------------------------- program constants --------------------------- *)
\* config.py: MIN_AMOUNT
MIN_AMOUNT == 1000000
\* can_send_notification: current_time - ts < 60
WINDOW == 60

\* config.py: TRADING_PAIRS (a subset) and the two enable_* settings
TRADING_PAIRS == {"btcusdt"}
enable_spot == TRUE
enable_futures == TRUE

\* the feed units run() creates: one websocket_handler per symbol per market
Feeds ==
    {<<s, "SPOT">> : s \in IF enable_spot THEN TRADING_PAIRS ELSE {}}
      \cup {<<s, "FUTURES">> : s \in IF enable_futures THEN TRADING_PAIRS ELSE {}}

UserIds == 1..MaxUser

(* ------------------------------ inputs --------------------------------- *)
\* (price, quantity) of the trades fed in: notionals 999,999 (just below
\* MIN_AMOUNT), 1,000,000 (equal to it) and 1,250,000 (above it)
TradeInputs == {<<333333, 3>>, <<500000, 2>>, <<50000, 25>>}

\* A raw websocket message: json is whether json.loads succeeds, fields is
\* whether 'p' and 'q' are present and numeric, T whether the event time can
\* be formatted: 'T' is present, is a number, and T / 1000 is a time that
\* datetime.fromtimestamp accepts (10**18 or 1e300 are numbers it rejects).
Messages ==
    {[json |-> FALSE, fields |-> FALSE, p |-> 0, q |-> 0, T |-> FALSE],
     [json |-> TRUE, fields |-> FALSE, p |-> 0, q |-> 0, T |-> TRUE]}
      \cup {[json |-> TRUE, fields |-> TRUE, p |-> pq[1], q |-> pq[2], T |-> hasT] :
               pq \in TradeInputs, hasT \in BOOLEAN}

\* The outcome of one sendMessage call: an HTTP status (with the body of a
\* non-200 answer read), or an exception of the request or of that reading
DeliveryResults == {"200", "403", "500", "exception"}

\* The outcome of the write in save_subscribers: it succeeds, open() raises
\* (the file is not touched), or open(..., 'w') succeeds, which empties the
\* file, and json.dump or the closing of the file raises
SaveResults == {"ok", "open_error", "write_error"}

\* One update of a getUpdates result: a message from a user, an update
\* without 'message', or a message without 'from' (KeyError)
Updates ==
    [kind : {"message"}, id : UserIds]
      \cup {[kind |-> "other", id |-> 0], [kind |-> "malformed", id |-> 0]}

RECURSIVE SeqsUpTo(_, _)
SeqsUpTo(S, n) ==
    IF n = 0 THEN {<<>>}
    ELSE LET shorter == SeqsUpTo(S, n - 1)
         IN  shorter \cup {Append(s, x) : s \in shorter, x \in S}

\* An HTTP answer of getUpdates, or an exception raised by the call
GetUpdatesResponses ==
    {[exc |-> TRUE, status |-> 0, ok |-> FALSE, result |-> <<>>]}
      \cup [exc : {FALSE}, status : {500}, ok : {FALSE}, result : {<<>>}]
      \cup [exc : {FALSE}, status : {200}, ok : {FALSE},
            result : {<<>>, <<[kind |-> "message", id |-> 1]>>}]
      \cup [exc : {FALSE}, status : {200}, ok : {TRUE}, result : SeqsUpTo(Updates, MaxBatch)]

(* ------------------------------- state --------------------------------- *)
VARIABLES
    runPc,                    \* where run() is
    testResult,               \* what test_telegram_connection returned to run()
    subscribed_users,         \* self.subscribed_users
    file,                     \* subscribers.json
    notification_timestamps,  \* self.notification_timestamps
    stats,                    \* self.stats
    now,                      \* time.time()
    pc,                       \* pc[f]: where websocket_handler(f) is
    pass,                     \* pass[f]: locals of f's send_telegram_notification
    pollerPc,                 \* where update_subscribers_periodically is
    statsPc,                  \* where print_stats is
    admissions,               \* history: the times can_send_notification returned True
    lastCheck,                \* history: result of the latest can_send_notification
    ev                        \* history: what the latest step did

vars == <<runPc, testResult, subscribed_users, file, notification_timestamps,
          stats, now, pc, pass, pollerPc, statsPc, admissions, lastCheck, ev>>

NoEvent == [op |-> "none"]

\* pass[f] of a feed that is not inside send_telegram_notification
NoPass ==
    [user_id |-> 0, it_used |-> 0, success_count |-> 0, failed_users |-> <<>>,
     start_users |-> {}, attempted |-> {}]

(* --------------------------- pure functions ---------------------------- *)
RECURSIVE SetToList(_)
\* list(self.subscribed_users): the ids in table order, ascending
SetToList(S) ==
    IF S = {} THEN <<>>
    ELSE LET m == CHOOSE x \in S : \A y \in S : x <= y
         IN  <<m>> \o SetToList(S \ {m})

ListToSet(l) == {l[i] : i \in 1..Len(l)}

\* subscribers.json after open(..., 'w') emptied it and the write failed: the
\* file exists and holds no JSON document (nothing, or the start of one)
TruncatedFile ==
    [exists |-> TRUE, json |-> FALSE, subscribers |-> <<>>, total_count |-> 0]

\* subscribers.json before it was ever written
NoFile ==
    [exists |-> FALSE, json |-> FALSE, subscribers |-> <<>>, total_count |-> 0]

\* save_subscribers: the new content of the file.  Every exception is logged
\* and swallowed (lines 102-103); when open() raised the file is as it was,
\* when the write raised after open() the file is left truncated.  The
\* 'last_updated' field is written but never read by the program and is left
\* out of the content.
save_subscribers(users, old, result) ==
    IF result = "ok"
    THEN [exists |-> TRUE, json |-> TRUE, subscribers |-> SetToList(users),
          total_count |-> Cardinality(users)]
    ELSE IF result = "open_error" THEN old
    ELSE TruncatedFile

\* a load that reads only as many ids as the count field says
load_subscribersTrustingCount(f) ==
    IF f.exists /\ f.json
    THEN {f.subscribers[i] :
             i \in {j \in 1..Len(f.subscribers) : j <= f.total_count}}
    ELSE {}

\* load_subscribers: the registry built from the file; without a file, or
\* when json.load raises (lines 88-89), the registry stays the empty set of
\* line 54
load_subscribers(f) ==
    IF f.exists /\ f.json THEN ListToSet(f.subscribers) ELSE {}

\* can_send_notification, first statement: the pruned window
PruneWindow(ts, t) == SelectSeq(ts, LAMBDA x : t - x < WINDOW)

\* a limiter that admits one notification more than the maximum
can_send_notificationOffByOne(ts, t) == Len(PruneWindow(ts, t)) <= MaxPerMinute

\* can_send_notification: the returned value, computed on the pruned window
can_send_notification(ts, t) == Len(PruneWindow(ts, t)) < MaxPerMinute

\* handle_trade lines 270-272: json.loads and the two float() calls succeed
Decodes(m) == m.json /\ m.fields

\* handle_trade line 273
Amount(m) == m.p * m.q

\* handle_trade line 283
ReachesThreshold(m) == Amount(m) >= MIN_AMOUNT

\* format_trade_message returns a text iff line 235 succeeds: trade_data['T']
\* can be read (else KeyError), divided by 1000 (else TypeError) and turned
\* into a date by datetime.fromtimestamp (else ValueError, OverflowError or
\* OSError for a time out of range)
FormatRaises(m) == ~m.T

\* next() of a set iterator created when the set had `used` elements and
\* whose cursor is past the slot of `cursor`
IterNext(users, used, cursor) ==
    IF Cardinality(users) # used
    THEN [kind |-> "RuntimeError", value |-> 0]
    ELSE IF \E u \in users : u > cursor
         THEN [kind |-> "value",
               value |-> CHOOSE u \in users :
                            u > cursor /\ \A v \in users : v > cursor => u <= v]
         ELSE [kind |-> "StopIteration", value |-> 0]


\* An HTTP answer of getMe, or an exception raised by the call
GetMeResponses ==
    {[exc |-> TRUE, status |-> 0, ok |-> FALSE, has_result |-> FALSE]}
      \cup [exc : {FALSE}, status : {200, 401}, ok : BOOLEAN, has_result : BOOLEAN]

\* test_telegram_connection: "True", "False", or "None" when the function
\* falls off its end (status 200 with ok false)
test_telegram_connection(resp) ==
    IF resp.exc THEN "False"
    ELSE IF resp.status = 200
         THEN IF resp.ok
              THEN IF resp.has_result THEN "True" ELSE "False"
              ELSE "None"
         ELSE "False"

\* run() returning only on an explicit False (`is False`), so that None passes
RunReturnsEarlyOnFalse(result) == result = "False"

\* run(), line 343: `if not await self.test_telegram_connection(): return`
RunReturnsEarly(result) == result \in {"False", "None"}

RECURSIVE ProcessUpdates(_, _, _)
\* get_subscribed_users, lines 157-163: the loop over data['result'];
\* a message without 'from' raises KeyError out of the loop
ProcessUpdates(users, new_users, updates) ==
    IF updates = <<>>
    THEN [users |-> users, new_users |-> new_users, raised |-> FALSE]
    ELSE LET u == Head(updates)
         IN  IF u.kind = "malformed"
             THEN [users |-> users, new_users |-> new_users, raised |-> TRUE]
             ELSE IF u.kind = "message" /\ u.id \notin users
                  THEN ProcessUpdates(users \cup {u.id}, new_users + 1, Tail(updates))
                  ELSE ProcessUpdates(users, new_users, Tail(updates))

\* get_subscribed_users, lines 153-156: the request raises, or the answer is
\* not status 200 with 'ok' true
PollFails(resp) == resp.exc \/ resp.status # 200 \/ ~resp.ok

\* get_subscribed_users: the registry and the file after the call, and the
\* number of save_subscribers calls it made
get_subscribed_users(users, old, resp, fs) ==
    IF PollFails(resp)
    THEN [users |-> users, file |-> old, saves |-> 0]
    ELSE LET r == ProcessUpdates(users, 0, resp.result)
         IN  IF ~r.raised /\ r.new_users > 0
             THEN [users |-> r.users,
                   file |-> save_subscribers(r.users, old, fs), saves |-> 1]
             ELSE [users |-> r.users, file |-> old, saves |-> 0]

\* what a call of get_subscribed_users did: whether the request failed, how
\* often save_subscribers was called and how many of these writes succeeded
PollEvent(resp, r, fs) ==
    [op |-> "poll", failed |-> PollFails(resp), saves |-> r.saves,
     written |-> IF r.saves = 1 /\ fs = "ok" THEN 1 ELSE 0]

\* add_subscriber (lines 105-110): the registry and the file after the call
\* and the number of save_subscribers calls
add_subscriber(users, old, user_id, fs) ==
    IF user_id \notin users
    THEN [users |-> users \cup {user_id},
          file |-> save_subscribers(users \cup {user_id}, old, fs), saves |-> 1]
    ELSE [users |-> users, file |-> old, saves |-> 0]

\* what a call of add_subscriber did: how often save_subscribers was called
\* and how many of these writes succeeded
AddEvent(r, fs) ==
    [op |-> "add", saves |-> r.saves,
     written |-> IF r.saves = 1 /\ fs = "ok" THEN 1 ELSE 0]

RECURSIVE DiscardAll(_, _)
\* send_telegram_notification, lines 220-221
DiscardAll(users, failed) ==
    IF failed = <<>> THEN users
    ELSE DiscardAll(users \ {Head(failed)}, Tail(failed))

\* save_subscribers called inside the loop of line 220, once per removed user
RemoveBlockedSavingEach(users, old, failed, fs) ==
    LET left == DiscardAll(users, failed)
    IN  [users |-> left,
         file |-> IF failed # <<>> THEN save_subscribers(left, old, fs) ELSE old,
         saves |-> Len(failed)]

\* send_telegram_notification, lines 219-222: the registry and the file after
\* the removal of the blocked users, and the number of save_subscribers calls
RemoveBlocked(users, old, failed, fs) ==
    IF failed # <<>>
    THEN LET left == DiscardAll(users, failed)
         IN  [users |-> left, file |-> save_subscribers(left, old, fs), saves |-> 1]
    ELSE [users |-> users, file |-> old, saves |-> 0]

\* an except clause that logs and leaves the while loop: the task ends
AfterHandlerExceptionStops == "dead"

\* websocket_handler, lines 305-307: an exception is logged, the task sleeps
\* and the while loop goes on
AfterHandlerException == "backoff"

\* a handle_trade that lets the exception escape to websocket_handler's except
AfterTradeExceptionTearsDown == "backoff"

\* handle_trade, lines 287-288: an exception is logged and handle_trade
\* returns to the `async for` of websocket_handler
AfterTradeException == "streaming"

\* a handler that would start handle_trade as a task of its own and read on
CanReadWhileDelivering(place) == place \in {"streaming", "delivering", "closing"}

\* websocket_handler, lines 302-303: the next message is read only when the
\* awaited handle_trade of the previous one has returned
CanRead(place) == place = "streaming"

\* websocket_handler, line 302: the `async for` ends without exception on a
\* normal closure, and the while loop connects again at once
AfterNormalClosure == "connecting"

(* ------------------------------- Init ---------------------------------- *)
\* The state after BinanceMultiMonitor.__init__.  stats['start_time'] is only
\* logged by print_stats and is left out.
\* subscribers.json before the process starts: absent, written by an earlier
\* run, or left truncated by an earlier run
InitialFiles ==
    {NoFile, TruncatedFile}
      \cup {save_subscribers(S, NoFile, "ok") : S \in SUBSET UserIds}

Init ==
    /\ runPc = "start"
    /\ testResult = "none"
    /\ file \in InitialFiles
    /\ subscribed_users = load_subscribers(file)
    /\ notification_timestamps = <<>>
    /\ stats = [spot_trades |-> [s \in TRADING_PAIRS |-> 0],
                futures_trades |-> [s \in TRADING_PAIRS |-> 0],
                notifications_sent |-> 0, total_trades |-> 0]
    /\ now = 0
    /\ pc = [f \in Feeds |-> "not_started"]
    /\ pass = [f \in Feeds |-> NoPass]
    /\ pollerPc = "not_started"
    /\ statsPc = "not_started"
    /\ admissions = <<>>
    /\ lastCheck = "none"
    /\ ev = NoEvent

(* ------------------------------- run() --------------------------------- *)
\* run(), lines 339-343: up to the await of the getMe request
RunStart ==
    /\ runPc = "start"
    /\ runPc' = "testing"
    /\ ev' = NoEvent
    /\ UNCHANGED <<testResult, subscribed_users, file, notification_timestamps,
                   stats, now, pc, pass, pollerPc, statsPc, admissions, lastCheck>>

\* run(), lines 343-348: getMe answered; return, or go on to get_subscribed_users
TestReturns(resp) ==
    /\ runPc = "testing"
    /\ testResult' = test_telegram_connection(resp)
    /\ runPc' = IF RunReturnsEarly(testResult') THEN "returned" ELSE "initial_poll"
    /\ ev' = NoEvent
    /\ UNCHANGED <<subscribed_users, file, notification_timestamps, stats, now,
                   pc, pass, pollerPc, statsPc, admissions, lastCheck>>

\* run(), lines 348-370: getUpdates answered; the tasks are created and each
\* runs to its first await (connect, sleep, sleep)
InitialPollReturns(resp, fs) ==
    /\ runPc = "initial_poll"
    /\ LET r == get_subscribed_users(subscribed_users, file, resp, fs)
       IN  /\ r.saves = 0 => fs = "ok"
           /\ subscribed_users' = r.users
           /\ file' = r.file
           /\ ev' = PollEvent(resp, r, fs)
    /\ runPc' = "gathered"
    /\ pc' = [f \in Feeds |-> "connecting"]
    /\ statsPc' = "sleeping"
    /\ pollerPc' = "sleeping"
    /\ UNCHANGED <<testResult, notification_timestamps, stats, now, pass,
                   admissions, lastCheck>>

(* ---------------------- websocket_handler(f) --------------------------- *)
\* line 299: websockets.connect succeeds
ConnectOk(f) ==
    /\ pc[f] = "connecting"
    /\ pc' = [pc EXCEPT ![f] = "streaming"]
    /\ ev' = IF ev.op = "retry" /\ ev.feed = f
             THEN [op |-> "recovered", feed |-> f]
             ELSE NoEvent
    /\ UNCHANGED <<runPc, testResult, subscribed_users, file, notification_timestamps,
                   stats, now, pass, pollerPc, statsPc, admissions, lastCheck>>

\* lines 299, 305-307: websockets.connect raises
ConnectFail(f) ==
    /\ pc[f] = "connecting"
    /\ pc' = [pc EXCEPT ![f] = AfterHandlerException]
    /\ ev' = NoEvent
    /\ UNCHANGED <<runPc, testResult, subscribed_users, file, notification_timestamps,
                   stats, now, pass, pollerPc, statsPc, admissions, lastCheck>>

\* lines 302, 305-307: reading the next message raises (connection lost)
StreamError(f) ==
    /\ pc[f] = "streaming"
    /\ pc' = [pc EXCEPT ![f] = AfterHandlerException]
    /\ ev' = NoEvent
    /\ UNCHANGED <<runPc, testResult, subscribed_users, file, notification_timestamps,
                   stats, now, pass, pollerPc, statsPc, admissions, lastCheck>>

\* lines 302, 297: the server closes the connection normally
StreamClosed(f) ==
    /\ pc[f] = "streaming"
    /\ pc' = [pc EXCEPT ![f] = AfterNormalClosure]
    /\ ev' = NoEvent
    /\ UNCHANGED <<runPc, testResult, subscribed_users, file, notification_timestamps,
                   stats, now, pass, pollerPc, statsPc, admissions, lastCheck>>

\* line 307: asyncio.sleep(5) returns
BackoffDone(f) ==
    /\ pc[f] = "backoff"
    /\ pc' = [pc EXCEPT ![f] = "connecting"]
    /\ ev' = [op |-> "retry", feed |-> f]
    /\ UNCHANGED <<runPc, testResult, subscribed_users, file, notification_timestamps,
                   stats, now, pass, pollerPc, statsPc, admissions, lastCheck>>


\* the counters with line 276 dropped: the global counter is not incremented
CountTradeWithoutTotal(st, f) ==
    [st EXCEPT !.spot_trades =
                   IF f[2] = "SPOT" THEN [@ EXCEPT ![f[1]] = @ + 1] ELSE @,
               !.futures_trades =
                   IF f[2] = "SPOT" THEN @ ELSE [@ EXCEPT ![f[1]] = @ + 1]]

\* the counters with the market test of line 277 dropped: all counted as spot
CountTradeAsSpot(st, f) ==
    [st EXCEPT !.total_trades = @ + 1,
               !.spot_trades = [@ EXCEPT ![f[1]] = @ + 1]]

\* handle_trade, lines 276-280: the counters after one decoded trade of feed f
CountTrade(st, f) ==
    [st EXCEPT !.total_trades = @ + 1,
               !.spot_trades =
                   IF f[2] = "SPOT" THEN [@ EXCEPT ![f[1]] = @ + 1] ELSE @,
               !.futures_trades =
                   IF f[2] = "SPOT" THEN @ ELSE [@ EXCEPT ![f[1]] = @ + 1]]

\* How far handle_trade(m) gets before it returns or first awaits a delivery:
\*   decode_error   lines 270-272 raise
\*   below          line 283 is false
\*   format_error   format_trade_message raises
\*   no_subscribers send_telegram_notification returns at line 189
\*   rate_limited   send_telegram_notification returns at line 193
\*   started        the loop of line 198 awaits its first delivery
TradeOutcome(m, users, ts, t) ==
    IF ~Decodes(m) THEN "decode_error"
    ELSE IF ~ReachesThreshold(m) THEN "below"
    ELSE IF FormatRaises(m) THEN "format_error"
    ELSE IF users = {} THEN "no_subscribers"
    ELSE IF ~can_send_notification(ts, t) THEN "rate_limited"
    ELSE "started"

\* the outcomes in which handle_trade reached line 285
CallsBroadcast(outcome) == outcome \in {"no_subscribers", "rate_limited", "started"}

\* the outcomes in which send_telegram_notification reached line 191
ChecksLimit(outcome) == outcome \in {"rate_limited", "started"}

\* the number of admissions in the 60 seconds before t
AdmittedWithin(adm, t) == Len(SelectSeq(adm, LAMBDA x : t - x < WINDOW))

\* what a call of handle_trade did
TradeEvent(f, m, outcome) ==
    [op |-> "handle_trade", feed |-> f, decoded |-> Decodes(m),
     amount |-> IF Decodes(m) THEN Amount(m) ELSE 0,
     outcome |-> outcome,
     broadcasts |-> IF CallsBroadcast(outcome) THEN 1 ELSE 0]

\* lines 302-303, 267-285, 185-207: a message arrives and handle_trade runs
\* until it returns or awaits the first delivery of a broadcast pass
HandleTradeUpTo(f, m, cap) ==
    /\ CanRead(pc[f])
    /\ Decodes(m) => stats.total_trades < cap
    /\ LET outcome == TradeOutcome(m, subscribed_users, notification_timestamps, now)
           first == IterNext(subscribed_users, Cardinality(subscribed_users), 0)
       IN  /\ stats' = IF Decodes(m) THEN CountTrade(stats, f) ELSE stats
           /\ notification_timestamps' =
                  IF ChecksLimit(outcome)
                  THEN PruneWindow(notification_timestamps, now)
                  ELSE notification_timestamps
           /\ lastCheck' =
                  IF outcome = "started" THEN "admitted"
                  ELSE IF outcome = "rate_limited" THEN "denied"
                  ELSE lastCheck
           /\ admissions' =
                  IF outcome = "started"
                  THEN Append(SelectSeq(admissions, LAMBDA x : now - x < WINDOW), now)
                  ELSE admissions
           /\ pass' =
                  IF outcome = "started"
                  THEN [pass EXCEPT ![f] =
                           [user_id |-> first.value,
                            it_used |-> Cardinality(subscribed_users),
                            success_count |-> 0,
                            failed_users |-> <<>>,
                            start_users |-> subscribed_users,
                            attempted |-> {first.value}]]
                  ELSE pass
           /\ pc' = [pc EXCEPT ![f] =
                        IF outcome = "started" THEN "delivering"
                        ELSE IF outcome \in {"decode_error", "format_error"}
                             THEN AfterTradeException
                             ELSE "streaming"]
           /\ ev' = TradeEvent(f, m, outcome)
    /\ UNCHANGED <<runPc, testResult, subscribed_users, file, now, pollerPc, statsPc>>

HandleTrade(f, m) == HandleTradeUpTo(f, m, MaxTrades)

\* how a broadcast pass of feed f ended: "pass_end" (lines 218-228 ran) or
\* "pass_abort" (RuntimeError), how many recipients it removed, how often it
\* called save_subscribers and how many of these writes succeeded
PassEvent(op, f, removed, saves, fs) ==
    [op |-> op, feed |-> f, removed |-> Cardinality(removed), saves |-> saves,
     written |-> IF saves = 1 /\ fs = "ok" THEN 1 ELSE 0]

\* lines 207-216: the delivery to pass[f].user_id is over: status 200, status
\* 403 or another status with the body read by `await response.text()`, or
\* an exception of the request or of the reading of the body.  The result is
\* counted and the coroutine waits in the exits of the two `async with`
\* blocks (lines 207 and 200), where other tasks run.  The wait for the
\* body of a non-200 answer follows the wait for the answer with no
\* statement that changes state in between, and is part of "delivering".
DeliveryReturns(f, r) ==
    /\ pc[f] = "delivering"
    /\ pass' = [pass EXCEPT ![f] =
                   [@ EXCEPT !.success_count = IF r = "200" THEN @ + 1 ELSE @,
                             !.failed_users =
                                 IF r = "403" THEN Append(@, pass[f].user_id)
                                 ELSE @]]
    /\ pc' = [pc EXCEPT ![f] = "closing"]
    /\ ev' = NoEvent
    /\ UNCHANGED <<runPc, testResult, subscribed_users, file, notification_timestamps,
                   stats, now, pollerPc, statsPc, admissions, lastCheck>>

\* lines 198-228: the response and the session are closed; the loop asks the
\* set iterator for the next recipient and awaits that delivery, or the pass
\* ends (lines 218-228), or the iterator raises RuntimeError because the set
\* changed size, which handle_trade catches at line 287
SessionCloses(f, fs) ==
    /\ pc[f] = "closing"
    /\ LET p == pass[f]
           nxt == IterNext(subscribed_users, p.it_used, p.user_id)
           tail == RemoveBlocked(subscribed_users, file, p.failed_users, fs)
       IN  \* fs is the outcome of the write, drawn only when a write happens
           /\ (nxt.kind # "StopIteration" \/ tail.saves = 0) => fs = "ok"
           /\ IF nxt.kind = "value"
              THEN /\ pass' = [pass EXCEPT ![f] =
                                  [p EXCEPT !.user_id = nxt.value,
                                            !.attempted = @ \cup {nxt.value}]]
                   /\ pc' = [pc EXCEPT ![f] = "delivering"]
                   /\ ev' = NoEvent
                   /\ UNCHANGED <<subscribed_users, file, stats,
                                  notification_timestamps>>
              ELSE IF nxt.kind = "RuntimeError"
              THEN /\ pass' = [pass EXCEPT ![f] = NoPass]
                   /\ pc' = [pc EXCEPT ![f] = AfterTradeException]
                   /\ ev' = PassEvent("pass_abort", f, {}, 0, fs)
                   /\ UNCHANGED <<subscribed_users, file, stats, notification_timestamps>>
              ELSE /\ pass' = [pass EXCEPT ![f] = NoPass]
                   /\ pc' = [pc EXCEPT ![f] = "streaming"]
                   /\ subscribed_users' = tail.users
                   /\ file' = tail.file
                   /\ stats' = IF p.success_count > 0
                               THEN [stats EXCEPT
                                        !.notifications_sent = @ + p.success_count]
                               ELSE stats
                   /\ notification_timestamps' =
                          IF p.success_count > 0
                          THEN Append(notification_timestamps, now)
                          ELSE notification_timestamps
                   /\ ev' = PassEvent("pass_end", f,
                                      subscribed_users \ tail.users, tail.saves, fs)
    /\ UNCHANGED <<runPc, testResult, now, pollerPc, statsPc, admissions, lastCheck>>

(* ----------------- update_subscribers_periodically --------------------- *)
\* a poller whose loop ends when a poll cycle fails
PollerStopsOnFailure(failed) == IF failed THEN "dead" ELSE "sleeping"

\* lines 178-183: after get_subscribed_users returns, whether or not the
\* request failed, the loop goes back to asyncio.sleep(300)
PollerAfterCycle(failed) == "sleeping"

\* lines 180-181: asyncio.sleep(300) returns and getUpdates is requested
PollerWake ==
    /\ pollerPc = "sleeping"
    /\ pollerPc' = "polling"
    /\ ev' = NoEvent
    /\ UNCHANGED <<runPc, testResult, subscribed_users, file, notification_timestamps,
                   stats, now, pc, pass, statsPc, admissions, lastCheck>>

\* lines 153-174, 178-180: getUpdates answers and its body is read (no
\* statement changes state between the answer and `await response.json()`,
\* so both waits are "polling"); the loop sleeps again
PollReturns(resp, fs) ==
    /\ pollerPc = "polling"
    /\ LET r == get_subscribed_users(subscribed_users, file, resp, fs)
       IN  /\ r.saves = 0 => fs = "ok"
           /\ subscribed_users' = r.users
           /\ file' = r.file
           /\ ev' = PollEvent(resp, r, fs)
    /\ pollerPc' = PollerAfterCycle(PollFails(resp))
    /\ UNCHANGED <<runPc, testResult, notification_timestamps, stats, now, pc, pass,
                   statsPc, admissions, lastCheck>>

(* --------------------------- add_subscriber ---------------------------- *)
\* lines 105-110: the public method is called on the monitor.  It is not a
\* coroutine and no statement of the program calls it (the poller adds at
\* line 162), so the call comes from outside the tasks and runs as a whole
\* between two of their steps: before run(), while the tasks wait, inside a
\* broadcast pass of a feed, or after run() returned.
AddSubscriber(user_id, fs) ==
    /\ LET r == add_subscriber(subscribed_users, file, user_id, fs)
       IN  /\ r.saves = 0 => fs = "ok"
           /\ subscribed_users' = r.users
           /\ file' = r.file
           /\ ev' = AddEvent(r, fs)
    /\ UNCHANGED <<runPc, testResult, notification_timestamps, stats, now, pc, pass,
                   pollerPc, statsPc, admissions, lastCheck>>

(* ---------------------------- print_stats ------------------------------ *)
\* lines 318-335: the sleep returns, the counters are read and logged
PrintStats ==
    /\ statsPc = "sleeping"
    /\ ev' = NoEvent
    /\ UNCHANGED <<runPc, testResult, subscribed_users, file, notification_timestamps,
                   stats, now, pc, pass, pollerPc, statsPc, admissions, lastCheck>>

(* ------------------------------- clock --------------------------------- *)
Tick ==
    /\ now + TickSeconds <= MaxTime
    /\ now' = now + TickSeconds
    /\ ev' = NoEvent
    /\ UNCHANGED <<runPc, testResult, subscribed_users, file, notification_timestamps,
                   stats, pc, pass, pollerPc, statsPc, admissions, lastCheck>>

Next ==
    \/ RunStart
    \/ \E resp \in GetMeResponses : TestReturns(resp)
    \/ \E resp \in GetUpdatesResponses, fs \in SaveResults : InitialPollReturns(resp, fs)
    \/ \E f \in Feeds : ConnectOk(f)
    \/ \E f \in Feeds : ConnectFail(f)
    \/ \E f \in Feeds : StreamError(f)
    \/ \E f \in Feeds : StreamClosed(f)
    \/ \E f \in Feeds : BackoffDone(f)
    \/ \E f \in Feeds, m \in Messages : HandleTrade(f, m)
    \/ \E f \in Feeds, r \in DeliveryResults : DeliveryReturns(f, r)
    \/ \E f \in Feeds, fs \in SaveResults : SessionCloses(f, fs)
    \/ PollerWake
    \/ \E resp \in GetUpdatesResponses, fs \in SaveResults : PollReturns(resp, fs)
    \/ PrintStats
    \/ \E u \in UserIds, fs \in SaveResults : AddSubscriber(u, fs)

\* Every task of the program, under every interleaving and every failure of
\* its connections, requests and writes, while the clock stands at one
\* reading: the window of the limiter never expires here
Spec == Init /\ [][Next]_vars


\* The rate limiter over time: startup, the feeds connect and stay
\* connected, trades arrive, deliveries answer, every write of the file
\* succeeds and the clock advances past the window
LimiterNext ==
    \/ RunStart
    \/ \E resp \in GetMeResponses : TestReturns(resp)
    \/ \E resp \in GetUpdatesResponses : InitialPollReturns(resp, "ok")
    \/ \E f \in Feeds : ConnectOk(f)
    \/ \E f \in Feeds, m \in Messages : HandleTradeUpTo(f, m, LimiterTrades)
    \/ \E f \in Feeds, r \in DeliveryResults : DeliveryReturns(f, r)
    \/ \E f \in Feeds : SessionCloses(f, "ok")
    \/ \E u \in UserIds : AddSubscriber(u, "ok")
    \/ Tick

LimiterSpec == Init /\ [][LimiterNext]_vars

\* The feeds under the scheduling the event loop gives: a sleep that was
\* started returns, and a connect attempt that is repeated forever succeeds
\* at some point
LiveSpec ==
    /\ Init
    /\ [][Next]_vars
    /\ \A f \in Feeds : WF_vars(BackoffDone(f)) /\ SF_vars(ConnectOk(f))

(* ------------------------------- claims -------------------------------- *)
PassOver == ev.op \in {"pass_end", "pass_abort"}

\* C1: for every decoded trade handled by handle_trade, a notional below the
\* threshold triggers no broadcast and a notional at or above the threshold
\* triggers exactly one call of send_telegram_notification.
C1_OneBroadcastPerQualifyingTrade ==
    (ev.op = "handle_trade" /\ ev.decoded) =>
        /\ ev.amount < MIN_AMOUNT => ev.broadcasts = 0
        /\ ev.amount >= MIN_AMOUNT => ev.broadcasts = 1

\* C2: no more than MaxPerMinute broadcast passes are admitted in any
\* 60-second window, under every interleaving of the feed tasks.
C2_AtMostMaxPerWindow ==
    AdmittedWithin(admissions, now) <= MaxPerMinute

\* C3: after a denial, once 60 seconds have elapsed since the earliest
\* timestamp of the window, the next admission check prunes that timestamp
\* and returns true.
C3_AdmitsAgainAfterWindow ==
    [][(/\ ev'.op = "handle_trade"
        /\ ChecksLimit(ev'.outcome)
        /\ lastCheck = "denied"
        /\ notification_timestamps # <<>>
        /\ now - notification_timestamps[1] >= WINDOW)
       => (/\ ev'.outcome = "started"
           /\ \A i \in 1..Len(notification_timestamps') :
                  notification_timestamps'[i] # notification_timestamps[1])]_vars

\* the recipients that answered 403 during the pass of feed f that ends in
\* this step
BlockedInPass(f) == ListToSet(pass[f].failed_users)

\* C4: when a broadcast pass is over, every recipient that answered 403
\* during the pass is out of the registry, and the pass removed exactly
\* those recipients.
C4_RemovesExactlyBlocked ==
    [][(ev'.op \in {"pass_end", "pass_abort"}) =>
          LET blocked == BlockedInPass(ev'.feed)
          IN  /\ \A u \in blocked : u \notin subscribed_users'
              /\ subscribed_users \ subscribed_users' = blocked \cap subscribed_users]_vars

\* C5 as stated: every broadcast pass that passed its preconditions calls
\* save_subscribers exactly once, whether it removed zero, one or many.
C5_ExactlyOneSavePerPass ==
    PassOver => ev.saves = 1

\* C5 as amended: a broadcast pass calls save_subscribers exactly once when
\* it reaches its removal step with at least one recipient that answered 403
\* (however many), and not at all otherwise.
C5_OneSaveIffRemoval ==
    [][(ev'.op \in {"pass_end", "pass_abort"}) =>
          ev'.saves = IF ev'.op = "pass_end" /\ BlockedInPass(ev'.feed) # {}
                      THEN 1 ELSE 0]_vars

C5_Witness ==
    /\ ev.op = "pass_end"
    /\ ev.removed = 2
    /\ ev.saves = 1

\* C6: a broadcast pass attempts delivery to exactly the recipients present
\* when it started and runs to completion, whatever the poller or another
\* pass does to the registry meanwhile.
C6_IteratesSnapshot ==
    [][(ev'.op \in {"pass_end", "pass_abort"}) =>
          /\ ev'.op = "pass_end"
          /\ pass[ev'.feed].attempted = pass[ev'.feed].start_users]_vars

\* C7: a feed unit whose connection was lost (it sleeps before the next
\* attempt, or connects again after a normal closure) returns to streaming,
\* given that a later connect attempt succeeds, and a step in which one feed
\* unit changes its place changes no other feed unit.
C7_FeedRecovers ==
    /\ \A f \in Feeds :
           (pc[f] \in {"backoff", "connecting"}) ~> (pc[f] = "streaming")
    /\ [][runPc = "gathered" =>
            \A f, g \in Feeds :
                (f # g /\ pc'[f] # pc[f]) => (pc'[g] = pc[g] /\ pass'[g] = pass[g])]_vars

C7_Witness ==
    /\ ev.op = "recovered"
    /\ pc[ev.feed] = "streaming"
    /\ \E g \in Feeds : g # ev.feed /\ pc[g] = "delivering"

\* C8: every decoded trade adds exactly 1 to total_trades and exactly 1 to
\* the counter of its own market and symbol, and nothing to the other
\* market's counters, whether or not its notional reaches the threshold.
C8_CountersCountEveryTrade ==
    [][(ev'.op = "handle_trade" /\ ev'.decoded) =>
          LET s == ev'.feed[1]
              spot == IF ev'.feed[2] = "SPOT" THEN 1 ELSE 0
          IN  /\ stats'.total_trades = stats.total_trades + 1
              /\ stats'.spot_trades =
                     [stats.spot_trades EXCEPT ![s] = @ + spot]
              /\ stats'.futures_trades =
                     [stats.futures_trades EXCEPT ![s] = @ + (1 - spot)]]_vars

C8_Witness ==
    /\ ev.op = "handle_trade"
    /\ ev.decoded
    /\ ev.amount = 999999
    /\ ev.broadcasts = 0
    /\ ev.feed = <<"btcusdt", "SPOT">>
    /\ stats.spot_trades["btcusdt"] = 1
    /\ stats.total_trades = 1

AnyTaskStarted ==
    \/ \E f \in Feeds : pc[f] # "not_started"
    \/ pollerPc # "not_started"
    \/ statsPc # "not_started"

\* C9: no feed, stats or poller task is started unless the identity check
\* returned success, and after a failed check (False or None) run() has
\* returned with nothing started.
C9_FailFast ==
    /\ AnyTaskStarted => testResult = "True"
    /\ testResult \in {"False", "None"} => (runPc = "returned" /\ ~AnyTaskStarted)

C9_Witness ==
    /\ testResult = "None"
    /\ runPc = "returned"
    /\ ~AnyTaskStarted

\* C10: once the tasks run, every feed unit is in its connect/stream loop,
\* whatever decode, connection, delivery or persistence errors occurred.
C10_FeedsNeverTerminate ==
    runPc = "gathered" =>
        \A f \in Feeds :
            pc[f] \in {"connecting", "streaming", "delivering", "closing", "backoff"}

C10_Witness ==
    /\ ev.op = "pass_abort"
    /\ pc[ev.feed] = "streaming"
    /\ \E g \in Feeds : pc[g] = "backoff"
    /\ ~file.exists

\* the files whose id list holds the ids of S in some order
FilesListing(S) ==
    {[exists |-> TRUE, json |-> TRUE, subscribers |-> l,
      total_count |-> Cardinality(S)] :
        l \in {x \in SeqsUpTo(S, Cardinality(S)) :
                  Len(x) = Cardinality(S) /\ ListToSet(x) = S}}

\* C11: save_subscribers followed by load_subscribers gives back the set
\* that was saved, for every set of ids and every order of the id list in
\* the file; the loaded set does not depend on the count field; and after
\* every successful write of the program (by a poll, by the end of a pass or
\* by add_subscriber) the file loads to the registry.
C11_SaveThenLoad ==
    /\ \A S \in SUBSET UserIds :
           /\ load_subscribers(save_subscribers(S, file, "ok")) = S
           /\ \A f \in FilesListing(S) :
                  \A n \in 0..(MaxUser + 1) :
                      load_subscribers([f EXCEPT !.total_count = n]) = S
    /\ (ev.op \in {"poll", "pass_end", "add"} /\ ev.written = 1) =>
           load_subscribers(file) = subscribed_users

C11_Witness ==
    /\ ev.op = "poll"
    /\ ev.written = 1
    /\ subscribed_users = UserIds
    /\ file.subscribers = SetToList(UserIds)
    /\ file.total_count = MaxUser

\* C12: a feed unit starts a connect attempt only at its start or after the
\* backoff sleep: when it leaves streaming (an error or the end of the
\* stream) or fails to connect, its next place is backoff, never connecting.
C12_BackoffBeforeEveryReconnect ==
    [][\A f \in Feeds :
          /\ (pc'[f] = "connecting" /\ pc[f] # "connecting") =>
                 pc[f] \in {"not_started", "backoff"}
          /\ (pc[f] = "connecting" /\ pc'[f] # "connecting") =>
                 pc'[f] \in {"streaming", "backoff"}
          /\ (pc[f] = "streaming" /\ pc'[f] # "streaming") =>
                 pc'[f] \in {"delivering", "backoff"}]_vars

\* C13: a message that does not decode (invalid JSON, price or quantity
\* missing or not a number) is skipped: the feed unit was streaming and stays
\* streaming on the same connection, no broadcast is triggered, and neither
\* the counters, the window, the registry nor the file change.
C13_DecodeFailureSkipped ==
    [][(ev'.op = "handle_trade" /\ ~ev'.decoded) =>
          /\ pc[ev'.feed] = "streaming"
          /\ pc' = pc
          /\ ev'.broadcasts = 0
          /\ pass' = pass
          /\ UNCHANGED <<stats, notification_timestamps, subscribed_users, file>>]_vars

C13_Witness ==
    /\ ev.op = "handle_trade"
    /\ ~ev.decoded
    /\ ev.outcome = "decode_error"
    /\ pc[ev.feed] = "streaming"
    /\ subscribed_users # {}
    /\ stats.total_trades = 1

\* C14: every broadcast pass that passed its preconditions and ran to its
\* end appends exactly one timestamp (the current time) to the window,
\* whatever the deliveries answered.
C14_OneTimestampPerPass ==
    [][(ev'.op = "pass_end") =>
          notification_timestamps' = Append(notification_timestamps, now)]_vars

\* C15: when handle_trade calls send_telegram_notification with an empty
\* registry or with a window that already holds the maximum, nothing is
\* delivered and nothing is left pending (the feed unit has no pass and is
\* streaming), the registry, the file and the sent counter are unchanged and
\* no timestamp is appended (the window is at most pruned).
C15_DroppedBroadcastIsNoOp ==
    [][(/\ ev'.op = "handle_trade"
        /\ ev'.broadcasts = 1
        /\ \/ subscribed_users = {}
           \/ Len(PruneWindow(notification_timestamps, now)) >= MaxPerMinute)
       => (/\ pass' = pass
           /\ pass[ev'.feed] = NoPass
           /\ pc'[ev'.feed] = "streaming"
           /\ UNCHANGED <<subscribed_users, file>>
           /\ stats'.notifications_sent = stats.notifications_sent
           /\ notification_timestamps' =
                  IF subscribed_users = {} THEN notification_timestamps
                  ELSE PruneWindow(notification_timestamps, now))]_vars

C15_Witness ==
    /\ ev.op = "handle_trade"
    /\ ev.outcome = "rate_limited"
    /\ ev.broadcasts = 1
    /\ subscribed_users # {}
    /\ Len(notification_timestamps) = MaxPerMinute
    /\ now = MaxTime
    /\ pass[ev.feed] = NoPass

\* the step recorded in e called save_subscribers and the write failed
SaveFailed(e) == e.op \in {"poll", "pass_end", "add"} /\ e.written < e.saves

\* C16: the ids of the file equal the registry at every suspension point:
\* a step between two awaits (of the poller, of a broadcast pass, or a call
\* of add_subscriber) that starts with the file equal to the registry and in
\* which no write fails ends with the file equal to the registry.
C16_WriteThrough ==
    [][(load_subscribers(file) = subscribed_users /\ ~SaveFailed(ev')) =>
          load_subscribers(file') = subscribed_users']_vars

\* the deliveries answered 200 during the pass of feed f that ends in this step
SuccessInPass(f) == pass[f].success_count

\* C17: when a write of save_subscribers fails, the registry keeps the
\* mutation; a broadcast pass still ends normally (the
\* feed unit streams again, the sent counter is updated and the timestamp of
\* the pass is appended to the window), a poll cycle still ends normally (the
\* poller sleeps again), a call of add_subscriber returns with the id added
\* and no task moved; and every later successful write stores the whole
\* registry.
C17_SaveFailureOnlyLogged ==
    [][/\ SaveFailed(ev') =>
            IF ev'.op = "pass_end"
            THEN /\ BlockedInPass(ev'.feed) # {}
                 /\ subscribed_users' = subscribed_users \ BlockedInPass(ev'.feed)
                 /\ pc'[ev'.feed] = "streaming"
                 /\ pass'[ev'.feed] = NoPass
                 /\ stats'.notifications_sent =
                        stats.notifications_sent + SuccessInPass(ev'.feed)
                 /\ notification_timestamps' = Append(notification_timestamps, now)
            ELSE IF ev'.op = "poll"
            THEN /\ subscribed_users \subseteq subscribed_users'
                 /\ subscribed_users' # subscribed_users
                 /\ pollerPc' = "sleeping"
                 /\ runPc' = "gathered"
            ELSE /\ subscribed_users \subseteq subscribed_users'
                 /\ Cardinality(subscribed_users') = Cardinality(subscribed_users) + 1
                 /\ UNCHANGED <<runPc, pc, pass, pollerPc, statsPc>>
       /\ (ev'.op \in {"poll", "pass_end", "add"} /\ ev'.written = 1) =>
            /\ load_subscribers(file') = subscribed_users'
            /\ file'.total_count = Cardinality(subscribed_users')]_vars

\* C18: a feed unit reads a message only when handle_trade of its previous
\* message has returned: at the read the unit is streaming with no broadcast
\* pass of its own under way, and a unit inside a pass (awaiting a delivery
\* or the closing of its session) leaves it only by the end of that pass.  A read of one unit changes no other unit, and while
\* one unit is suspended in a pass every streaming unit can read a message.
C18_OneMessageAtATime ==
    [][/\ (ev'.op = "handle_trade") =>
            /\ pc[ev'.feed] = "streaming"
            /\ pass[ev'.feed] = NoPass
            /\ \A g \in Feeds \ {ev'.feed} : pc'[g] = pc[g] /\ pass'[g] = pass[g]
       /\ \A f \in Feeds :
            (pc[f] \in {"delivering", "closing"}
               /\ pc'[f] \notin {"delivering", "closing"}) =>
                /\ ev'.op \in {"pass_end", "pass_abort"}
                /\ ev'.feed = f
                /\ pc'[f] = "streaming"
       /\ \A f, g \in Feeds :
            (f # g /\ pc[g] \in {"delivering", "closing"} /\ pc[f] = "streaming") =>
                ENABLED (\E m \in Messages : HandleTrade(f, m))]_vars

C18_Witness ==
    /\ ev.op = "handle_trade"
    /\ ev.decoded
    /\ pc[ev.feed] = "streaming"
    /\ \E g \in Feeds : g # ev.feed /\ pc[g] = "delivering"

\* C19: a poll whose request raises or is answered other than 200 with ok
\* true changes neither the registry nor the file and calls no save; the
\* poller goes on, and after every poll cycle, failed or not, it is back in
\* the same sleep of the fixed interval.
C19_FailedPollChangesNothing ==
    [][(ev'.op = "poll") =>
          /\ ev'.failed =>
                 /\ UNCHANGED <<subscribed_users, file>>
                 /\ ev'.saves = 0
          /\ pollerPc' = "sleeping"]_vars

C19_Witness ==
    /\ ev.op = "poll"
    /\ ev.failed
    /\ pollerPc = "sleeping"
    /\ subscribed_users # {}
    /\ \E f \in Feeds : pc[f] = "delivering"

RECURSIVE SumOf(_, _)
\* the sum of the counters c[s] over the symbols s of S
SumOf(c, S) ==
    IF S = {} THEN 0
    ELSE LET s == CHOOSE x \in S : TRUE
         IN  c[s] + SumOf(c, S \ {s})

\* C20: in every reachable state total_trades equals the sum of spot_trades
\* over all symbols plus the sum of futures_trades over all symbols.
C20_TotalIsSumOfMarkets ==
    stats.total_trades =
        SumOf(stats.spot_trades, TRADING_PAIRS)
          + SumOf(stats.futures_trades, TRADING_PAIRS)

C20_Witness ==
    /\ stats.total_trades = 2
    /\ SumOf(stats.spot_trades, TRADING_PAIRS) = 1
    /\ SumOf(stats.futures_trades, TRADING_PAIRS) = 1
    /\ \E f \in Feeds : pc[f] = "delivering"

====
